---- MODULE Spec2Model ----
(***************************************************************************)
(* State-machine model of the quit-smoking bot (src/src/bot.py,            *)
(* src/src/users.py): the UserManager registry, the command handlers of    *)
(* QuitSmokingBot split at their await points, the notification dispatch   *)
(* loop, and the process lifecycle (setup, run, shutdown, signals); with   *)
(* the pure functions of utils.py, quotes.py and status.py and of the      *)
(* single-file variant src/bot.py.                                         *)
(***************************************************************************)
EXTENDS Integers, Sequences, FiniteSets, TLC

(* ---------------------------------------------------------------- bounds *)
\* Telegram user ids that may talk to the bot.
NumIds == 2
\* Handler coroutines that may be in flight on the event loop at once.
MaxTasks == 1

\* Largest month index handed to calculate_prize_fund.
MaxMonths == 30
\* Calendar years after the first one that an end date or "now" may fall in.
MaxYears == 1
\* Longest quotes file tried below the 240-entry coverage length.
MaxRaw == 12

Ids == 1..NumIds
Slots == 1..MaxTasks

VARIABLES
    users,       \* UserManager.users      (list of ids)
    admins,      \* UserManager.admins     (list of ids)
    usersFile,   \* content of USERS_FILE  (bot_users.json)
    adminsFile,  \* content of ADMINS_FILE (bot_admins.json)
    tasks,       \* slot -> handler coroutine (position, locals, what it sent)
    call,        \* last direct call of a UserManager method (unit-test style)
    writable,    \* the data directory accepts writes (open(..., "w") succeeds)
    disk,        \* per file: "ok" (a JSON list), "missing" or "corrupt"
    calc,        \* a call of a pure function: its name, argument and result
    quotes,      \* QuotesManager.quotes / QUOTES (the loaded quote list)
    last_used_quotes, \* src/bot.py last_used_quotes["global"] ("": no entry)
    life         \* the process: where main()/run() is, _running, the
                 \* application, the scheduler, the shutdown event

vars == <<users, admins, usersFile, adminsFile, tasks, call,
          writable, disk, calc, quotes, last_used_quotes, life>>

\* what the handlers and the UserManager methods never assign
rest == <<writable, calc, quotes, last_used_quotes, life>>

(* --------------------------------------------------------------- helpers *)
Range(s) == {s[i] : i \in 1..Len(s)}

\* a list without the entries equal to id
Without(list, id) == SelectSeq(list, LAMBDA x : x # id)

RECURSIVE Perms(_)
\* every duplicate-free list over the set S, of every length
Perms(S) ==
    IF S = {} THEN {<<>>}
    ELSE {<<>>} \cup UNION {{<<x>> \o p : p \in Perms(S \ {x})} : x \in S}

\* the registry object together with its two backing files
World == [users |-> users, admins |-> admins,
          usersFile |-> usersFile, adminsFile |-> adminsFile,
          writable |-> writable, disk |-> disk]

(* ------------------------------------------------------ src/src/utils.py *)
\* save_json_file(filename, data): the whole list replaces the file content;
\* an exception of mkdir/open/json.dump is logged and swallowed, the file
\* keeps what it held
save_json_file(w, file, data) ==
    IF ~w.writable THEN w
    ELSE IF file = "users"
         THEN [w EXCEPT !.usersFile = data, !.disk.users = "ok"]
         ELSE [w EXCEPT !.adminsFile = data, !.disk.admins = "ok"]

\* mutant: a file that cannot be parsed is taken for what it held before
load_json_file_stale(content, state, default_value) ==
    IF state = "missing" THEN default_value ELSE content

\* load_json_file(filename, default_value) for a file with this content in
\* this state: a missing file and a file whose open or json.load raises both
\* give the default value
load_json_file(content, state, default_value) ==
    IF state # "missing"
    THEN IF state = "ok" THEN content ELSE default_value
    ELSE default_value

(* ----------------------------------------------------- src/src/config.py *)
START_YEAR == 2025

START_MONTH == 1

NOTIFICATION_DAY == 23

NOTIFICATION_HOUR == 21

NOTIFICATION_MINUTE == 58

\* datetime.datetime(year, month, day, hour, minute)
datetime(y, m, d, hh, mm) ==
    [year |-> y, month |-> m, day |-> d, hour |-> hh, minute |-> mm]

START_DATE ==
    datetime(START_YEAR, START_MONTH, NOTIFICATION_DAY,
             NOTIFICATION_HOUR, NOTIFICATION_MINUTE)

(* ------------------------------------------------ the datetime module *)
IsLeap(y) == (y % 4 = 0 /\ y % 100 # 0) \/ y % 400 = 0

DaysInMonth(y, m) ==
    IF m = 2 THEN (IF IsLeap(y) THEN 29 ELSE 28)
    ELSE IF m \in {4, 6, 9, 11} THEN 30 ELSE 31

\* every date-time datetime() accepts in these years, at these times of day
DateTimes(years, times) ==
    {datetime(y, m, d, t[1], t[2]) :
        y \in years, m \in 1..12, d \in 1..31, t \in times}
    \ {x \in {datetime(y, m, d, t[1], t[2]) :
                 y \in years, m \in {2, 4, 6, 9, 11}, d \in 29..31, t \in times} :
            x.day > DaysInMonth(x.year, x.month)}

\* days from 0001-01-01 to the first day of year y (date.toordinal)
DaysBeforeYear(y) ==
    LET p == y - 1
    IN  p * 365 + (p \div 4) - (p \div 100) + (p \div 400)

RECURSIVE DaysBeforeMonth(_, _)
DaysBeforeMonth(y, m) ==
    IF m = 1 THEN 0 ELSE DaysBeforeMonth(y, m - 1) + DaysInMonth(y, m - 1)

toordinal(d) == DaysBeforeYear(d.year) + DaysBeforeMonth(d.year, d.month) + d.day

\* minutes since 0001-01-01 00:00: the order and the difference of date-times
Minutes(d) == ((toordinal(d) - 1) * 24 + d.hour) * 60 + d.minute

\* d - datetime.timedelta(days=1)
DayBefore(d) ==
    IF d.day > 1 THEN [d EXCEPT !.day = d.day - 1]
    ELSE IF d.month > 1
         THEN [d EXCEPT !.month = d.month - 1,
                        !.day = DaysInMonth(d.year, d.month - 1)]
         ELSE [d EXCEPT !.year = d.year - 1, !.month = 12, !.day = 31]

MONTHLY_AMOUNT == 5000

PRIZE_FUND_INCREASE == 5000

MAX_PRIZE_FUND == 100000

(* -------------------------------------- src/src/utils.py, calculate_period *)
calculate_period(start_date, end_date) ==
    LET years0 == end_date.year - start_date.year
        months0 == end_date.month - start_date.month
        days0 == end_date.day - start_date.day
        \* if days < 0: borrow from months
        last_day == DayBefore([end_date EXCEPT !.day = 1]).day
        months1 == IF days0 < 0 THEN months0 - 1 ELSE months0
        days1 == IF days0 < 0 THEN days0 + last_day ELSE days0
        \* if months < 0: borrow from years
        years2 == IF months1 < 0 THEN years0 - 1 ELSE years0
        months2 == IF months1 < 0 THEN months1 + 12 ELSE months1
    IN  [years |-> years2, months |-> months2, days |-> days1]

(* ------------------------------------------ src/src/utils.py, prize fund *)
Min(a, b) == IF a <= b THEN a ELSE b

\* mutant: the fund without the cap
calculate_prize_fund_uncapped(months) ==
    IF months < 0 THEN 0
    ELSE MONTHLY_AMOUNT + (months * PRIZE_FUND_INCREASE)

\* calculate_prize_fund(months) of src/src/utils.py, the one status.py imports
calculate_prize_fund(months) ==
    IF months < 0 THEN 0
    ELSE LET prize_fund == MONTHLY_AMOUNT + (months * PRIZE_FUND_INCREASE)
         IN  Min(prize_fund, MAX_PRIZE_FUND)

\* calculate_prize_fund(months) of the single-file bot (src/bot.py)
legacy_calculate_prize_fund(months) ==
    IF months < 0 THEN 0
    ELSE LET base_amount == 5000
         IN  base_amount * (months + 1)

(* ----------------------------------------------------- src/src/quotes.py *)
\* 20 years of monthly quotes
Coverage == 240

FallbackQuote == "Each day without cigarettes is a victory over yourself. - Mark Twain"

\* In the three definitions below the list built is
\*   extended_quotes = quotes.copy()
\*   for i in range(len(quotes), 240): extended_quotes.append(quotes[i % len(quotes)])
\* where i = j - 1 is the 0-based index of the entry appended.

\* mutant: the padding is one entry out of step with the list
QM_load_quotes_shifted(raw) ==
    IF raw # <<>> /\ Len(raw) < Coverage
    THEN [j \in 1..Coverage |->
             IF j <= Len(raw) THEN raw[j] ELSE raw[(j % Len(raw)) + 1]]
    ELSE raw

\* QuotesManager._load_quotes on the list load_json_file(QUOTES_FILE, []) gave
QM_load_quotes(raw) ==
    IF raw # <<>> /\ Len(raw) < Coverage
    THEN [j \in 1..Coverage |->
             IF j <= Len(raw) THEN raw[j] ELSE raw[((j - 1) % Len(raw)) + 1]]
    ELSE raw

\* what a call of get_random_quote gives: a quote, or an exception
Quote(q) == [quote |-> q, raised |-> FALSE]

QuoteRaised == [quote |-> "", raised |-> TRUE]

\* QuotesManager.get_random_quote: every outcome random.choice can have
QM_get_random_quote(loaded) ==
    IF loaded = <<>> THEN {Quote(FallbackQuote)}
    ELSE {Quote(q) : q \in Range(loaded)}

(* ------------------------------------------------- src/bot.py, quotes *)
\* load_quotes() of the single-file bot
legacy_load_quotes(raw) ==
    IF raw # <<>> /\ Len(raw) < Coverage
    THEN [j \in 1..Coverage |->
             IF j <= Len(raw) THEN raw[j] ELSE raw[((j - 1) % Len(raw)) + 1]]
    ELSE raw

\* get_random_quote(user_id) of the single-file bot: the quotes other than
\* the one this user got last; random.choice of an empty list raises
\* IndexError
legacy_get_random_quote(loaded, last_quote) ==
    IF loaded = <<>> \/ Len(loaded) <= 1 THEN {Quote(FallbackQuote)}
    ELSE LET available_quotes == SelectSeq(loaded, LAMBDA q : q # last_quote)
         IN  IF available_quotes = <<>> THEN {QuoteRaised}
             ELSE {Quote(q) : q \in Range(available_quotes)}

(* ----------------------------------------------------- src/src/status.py *)
\* the early return: "The smoke-free period hasn't started yet"
NotStarted ==
    [started |-> FALSE, years |-> 0, months |-> 0, days |-> 0,
     current_month_idx |-> 0, prize_fund |-> 0, prize_increase |-> 0,
     next_date |-> START_DATE, days_until_next |-> 0, quote |-> ""]

\* StatusManager.get_status_info at the wall-clock time now, with the quote
\* get_random_quote returned; both date-times are in the bot's one timezone
get_status_info(now, quote) ==
    IF Minutes(now) - Minutes(START_DATE) < 0 THEN NotStarted
    ELSE
    LET period == calculate_period(START_DATE, now)
        current_month_idx0 ==
            IF now.day >= NOTIFICATION_DAY
            THEN period.years * 12 + period.months
            ELSE period.years * 12 + period.months - 1
        current_month_idx == IF current_month_idx0 < 0 THEN 0 ELSE current_month_idx0
        prize_fund == calculate_prize_fund(current_month_idx)
        next_prize_fund == calculate_prize_fund(current_month_idx + 1)
        at_time == [now EXCEPT !.day = NOTIFICATION_DAY,
                               !.hour = NOTIFICATION_HOUR,
                               !.minute = NOTIFICATION_MINUTE]
        next_date ==
            IF now.day <= NOTIFICATION_DAY THEN at_time
            ELSE IF now.month = 12
                 THEN [at_time EXCEPT !.year = now.year + 1, !.month = 1]
                 ELSE [at_time EXCEPT !.month = now.month + 1]
        \* timedelta: .days is the floor, .seconds the non-negative remainder
        delta == Minutes(next_date) - Minutes(now)
        days_until_next == (delta \div 1440) + (IF delta % 1440 > 0 THEN 1 ELSE 0)
    IN  [started |-> TRUE,
         years |-> period.years, months |-> period.months, days |-> period.days,
         current_month_idx |-> current_month_idx,
         prize_fund |-> prize_fund,
         prize_increase |-> next_prize_fund - prize_fund,
         next_date |-> next_date,
         days_until_next |-> days_until_next,
         quote |-> quote]

(* ------------------------------------------------------ src/src/users.py *)
\* Result of a UserManager method: the object afterwards, the value
\* returned, whether the call raised, and the files it saved, in order.
UMResult(w, ret, raised, saved) ==
    [w |-> w, ret |-> ret, raised |-> raised, saved |-> saved]

\* UserManager.__init__: _load_users, then _load_admins
UM_init(w) ==
    [w EXCEPT !.users = load_json_file(w.usersFile, w.disk.users, <<>>),
              !.admins = load_json_file(w.adminsFile, w.disk.admins, <<>>)]

UM_save_users(w) == save_json_file(w, "users", w.users)

UM_save_admins(w) == save_json_file(w, "admins", w.admins)

UM_add_user(w, id) ==
    IF id \notin Range(w.users)
    THEN UMResult(UM_save_users([w EXCEPT !.users = Append(@, id)]),
                  TRUE, FALSE, <<"users">>)
    ELSE UMResult(w, FALSE, FALSE, <<>>)

\* add_admin without the membership test: appends and saves every time
UM_add_admin_nocheck(w, id) ==
    UMResult(UM_save_admins([w EXCEPT !.admins = Append(@, id)]),
             TRUE, FALSE, <<"admins">>)

UM_add_admin(w, id) ==
    IF id \notin Range(w.admins)
    THEN UMResult(UM_save_admins([w EXCEPT !.admins = Append(@, id)]),
                  TRUE, FALSE, <<"admins">>)
    ELSE UMResult(w, FALSE, FALSE, <<>>)

UM_is_admin(w, id) == id \in Range(w.admins)

\* A Python list as a caller sees it: which object it is ("users" and
\* "admins" are the two lists the UserManager holds, "copy" is a list made
\* for the caller) and its items.
ListObject(obj, items) == [obj |-> obj, items |-> items]

\* get_all_users that hands out self.users itself
UM_get_all_users_live(w) == ListObject("users", w.users)

\* return self.users.copy()
UM_get_all_users(w) == ListObject("copy", w.users)

\* return self.admins.copy()
UM_get_all_admins(w) == ListObject("copy", w.admins)

\* class UserManager (users.py:10-62) defines no remove_admin: the attribute
\* lookup user_manager.remove_admin raises AttributeError before anything
\* is read or written.
UM_remove_admin(w, id) == UMResult(w, FALSE, TRUE, <<>>)

(* ----------------------------------------------------------- reply texts *)
WelcomeText == "Welcome"
FirstAdminNotice == "Welcome + You have been set as the first administrator of the bot."
PermissionDenied == "You don't have permission to use this command."
NotRegisteredText == "User ID is not registered with the bot. The user must use /start command first."
SelfRemovalText == "You cannot remove yourself from admins. Use /decline_admin instead."
NotAnAdminText == "You are not an admin."
LastAdminText == "You are the last administrator and cannot decline your privileges. Make someone else an admin first."
DeclinedText == "You have successfully declined your administrator privileges."

(* ------------------------------------------------------ handler coroutines *)
\* A coroutine: which handler, for whom, where it is suspended, its locals
\* (target, data, snap = the items of the list the dispatch loop iterates,
\* list = which list object that is, idx = loop position) and
\* the trace of what it has called so far (reply_text texts, send_message
\* recipients, UserManager mutators, index of the first send that raised).
Idle ==
    [kind |-> "idle", user |-> 0, target |-> 0, data |-> "", pc |-> "idle",
     replies |-> <<>>, out |-> <<>>, calls |-> <<>>,
     snap |-> <<>>, list |-> "", idx |-> 0, failedAt |-> 0]

NewTask(kind, u) == [Idle EXCEPT !.kind = kind, !.user = u, !.pc = "begin"]

\* what a synchronous segment of a handler leaves behind
Seg(w, t) == [w |-> w, t |-> t]

\* await update.message.reply_text(text): the call is issued, the coroutine
\* is suspended at pc until the transport answers
Reply(t, text, pc) == [t EXCEPT !.replies = Append(@, text), !.pc = pc]

\* await bot.send_message(chat_id=id, ...)
Send(t, id, pc) == [t EXCEPT !.out = Append(@, id), !.pc = pc]

Called(t, method) == [t EXCEPT !.calls = Append(@, method)]

\* context.args: a list of tokens; a token is a decimal id or other text
NonNumeric == -1

\* int(context.args[0]) raises ValueError on a non-numeric token
IsNumeric(tok) == tok # NonNumeric

ParseInt(tok) == tok

\* start without the empty-admin-list test: every /start promotes its user
start_always_admin(w, t) ==
    LET r == UM_add_admin(w, t.user)
    IN  Seg(r.w, Reply(Called(t, "add_admin"), FirstAdminNotice, "start_replied"))

\* start that takes an empty user list, not an empty admin list, as the sign
\* that nobody has bootstrapped yet
start_checks_users(w, t) ==
    IF UM_get_all_users(w).items = <<>>
    THEN LET r == UM_add_admin(w, t.user)
         IN  Seg(r.w, Reply(Called(t, "add_admin"),
                            FirstAdminNotice, "start_replied"))
    ELSE Seg(w, Reply(t, WelcomeText, "start_replied"))

\* QuitSmokingBot.start, up to the await of reply_text
start(w, t) ==
    IF UM_get_all_admins(w).items = <<>>
    THEN LET r == UM_add_admin(w, t.user)
         IN  Seg(r.w, Reply(Called(t, "add_admin"),
                            FirstAdminNotice, "start_replied"))
    ELSE Seg(w, Reply(t, WelcomeText, "start_replied"))

\* QuitSmokingBot.start after reply_text returned (ok) or raised
start_resume(w, t, ok) ==
    IF ok
    THEN LET r == UM_add_user(w, t.user)
         IN  Seg(r.w, [Called(t, "add_user") EXCEPT !.pc = "done"])
    ELSE Seg(w, [t EXCEPT !.pc = "aborted"])

\* QuitSmokingBot._send_notifications_to_users: the loop over the copy of
\* the user list, entered at index i (after is where the caller goes on)
SendLoop(t, i, after) ==
    IF i <= Len(t.snap)
    THEN Send([t EXCEPT !.idx = i], t.snap[i], "sending")
    ELSE after

\* what follows the dispatch: the scheduler job just returns;
\* manual_notification goes on to reply, the locals of
\* _send_notifications_to_users (and the trace of its sends) are gone
AfterDispatch(t) ==
    IF t.kind = "notify_all"
    THEN Reply([t EXCEPT !.snap = <<>>, !.list = "", !.idx = 0, !.out = <<>>,
                         !.failedAt = 0],
               "Notifications sent to all users.", "notify_replied")
    ELSE [t EXCEPT !.pc = "done"]

\* the loop run over self.user_manager.users itself instead of a copy
send_notifications_over_live_list(w, t) ==
    LET t1 == [t EXCEPT !.snap = w.users, !.list = "users", !.data = "dispatch"]
    IN  SendLoop(t1, 1, AfterDispatch(t1))

\* users = self.user_manager.get_all_users(), then the loop
send_notifications_to_users(w, t) ==
    LET all_users == UM_get_all_users(w)
        t1 == [t EXCEPT !.snap = all_users.items, !.list = all_users.obj,
                        !.data = "dispatch"]
    IN  SendLoop(t1, 1, AfterDispatch(t1))

\* the list the loop iterates, as it is when the loop takes its next entry:
\* a copy keeps its items, the UserManager's own list has its current ones
Seen(w, t) == [t EXCEPT !.snap = IF t.list = "users" THEN w.users ELSE @]

\* the loop with the try around the whole loop instead of around one send:
\* the first send that raises ends the run
send_notifications_resume_stop(t, ok) ==
    IF ok THEN SendLoop(t, t.idx + 1, AfterDispatch(t))
    ELSE AfterDispatch([t EXCEPT !.failedAt = t.idx])

\* the awaited send_message of the loop returned or raised (caught, logged)
send_notifications_resume(t, ok) ==
    LET t1 == IF ok \/ t.failedAt # 0 THEN t ELSE [t EXCEPT !.failedAt = t.idx]
    IN  SendLoop(t1, t.idx + 1, AfterDispatch(t1))

\* send_monthly_notification of the module-level variant (src/bot.py): the
\* loop runs over the live registered_users list, not over a copy; snap is
\* that list as the loop sees it when it takes element i
legacy_send_loop(w, t, i) ==
    IF i <= Len(w.users)
    THEN Send([t EXCEPT !.idx = i, !.snap = w.users, !.data = "dispatch"],
              w.users[i], "legacy_sending")
    ELSE [t EXCEPT !.snap = w.users, !.data = "dispatch", !.pc = "done"]

legacy_send_monthly_notification(w, t) == Seg(w, legacy_send_loop(w, t, 1))

legacy_send_resume(w, t, ok) ==
    LET t1 == IF ok \/ t.failedAt # 0 THEN t ELSE [t EXCEPT !.failedAt = t.idx]
    IN  Seg(w, legacy_send_loop(w, t1, t.idx + 1))

\* QuitSmokingBot.scheduled_notification_job
scheduled_notification_job(w, t) == Seg(w, send_notifications_to_users(w, t))

\* manual_notification without the is_admin test
manual_notification_unchecked(w, t) == Seg(w, send_notifications_to_users(w, t))

\* QuitSmokingBot.manual_notification (/notify_all)
manual_notification(w, t) ==
    IF UM_is_admin(w, t.user)
    THEN Seg(w, send_notifications_to_users(w, t))
    ELSE Seg(w, Reply(t, PermissionDenied, "final"))

\* reply_text("Notifications sent ...") raised inside the try: the except
\* branch replies with the error text
manual_notification_resume(w, t, ok) ==
    IF ok THEN Seg(w, [t EXCEPT !.pc = "done"])
    ELSE Seg(w, Reply(t, "Error sending notifications", "final"))

\* QuitSmokingBot.list_users
list_users(w, t) ==
    IF UM_is_admin(w, t.user)
    THEN IF UM_get_all_users(w).items = <<>>
         THEN Seg(w, Reply(t, "No registered users yet.", "final"))
         ELSE Seg(w, Reply(t, "List of users:", "final"))
    ELSE Seg(w, Reply(t, PermissionDenied, "final"))

\* QuitSmokingBot.list_admins
list_admins(w, t) ==
    IF UM_is_admin(w, t.user)
    THEN IF UM_get_all_admins(w).items = <<>>
         THEN Seg(w, Reply(t, "The admin list is empty.", "final"))
         ELSE Seg(w, Reply(t, "List of administrators:", "final"))
    ELSE Seg(w, Reply(t, PermissionDenied, "final"))

\* add_admin without the test that the target is a registered user
add_admin_unregistered(w, t, args) ==
    IF ~UM_is_admin(w, t.user)
    THEN Seg(w, Reply(t, PermissionDenied, "final"))
    ELSE IF Len(args) # 1
    THEN Seg(w, Reply(t, "Please provide a user ID to add as admin.", "final"))
    ELSE IF ~IsNumeric(args[1])
    THEN Seg(w, Reply(t, "Invalid user ID. Please provide a numeric user ID.", "final"))
    ELSE LET new_admin_id == ParseInt(args[1])
             t1 == [t EXCEPT !.target = new_admin_id]
         IN  IF UM_is_admin(w, new_admin_id)
             THEN Seg(w, Reply(t1, "User ID is already an admin.", "final"))
             ELSE LET r == UM_add_admin(w, new_admin_id)
                  IN  Seg(r.w, Reply(Called(t1, "add_admin"),
                                     "User ID has been added as an admin.",
                                     "added_replied"))

\* QuitSmokingBot.add_admin (/add_admin), up to its first await
add_admin(w, t, args) ==
    IF ~UM_is_admin(w, t.user)
    THEN Seg(w, Reply(t, PermissionDenied, "final"))
    ELSE IF Len(args) # 1
    THEN Seg(w, Reply(t, "Please provide a user ID to add as admin.", "final"))
    ELSE IF ~IsNumeric(args[1])
    THEN Seg(w, Reply(t, "Invalid user ID. Please provide a numeric user ID.", "final"))
    ELSE LET new_admin_id == ParseInt(args[1])
             t1 == [t EXCEPT !.target = new_admin_id]
         IN  IF new_admin_id \notin Range(UM_get_all_users(w).items)
             THEN Seg(w, Reply(t1, NotRegisteredText, "final"))
             ELSE IF UM_is_admin(w, new_admin_id)
             THEN Seg(w, Reply(t1, "User ID is already an admin.", "final"))
             ELSE LET r == UM_add_admin(w, new_admin_id)
                      t2 == Called(t1, "add_admin")
                  IN  IF r.ret
                      THEN Seg(r.w, Reply(t2, "User ID has been added as an admin.",
                                          "added_replied"))
                      ELSE Seg(r.w, Reply(t2, "Failed to add user ID as admin.", "final"))

\* remove_admin without the self-removal test
remove_admin_no_self_check(w, t, args) ==
    IF ~UM_is_admin(w, t.user)
    THEN Seg(w, Reply(t, PermissionDenied, "final"))
    ELSE IF Len(args) # 1
    THEN Seg(w, Reply(t, "Please provide a user ID to remove from admins.", "final"))
    ELSE IF ~IsNumeric(args[1])
    THEN Seg(w, Reply(t, "Invalid user ID. Please provide a numeric user ID.", "final"))
    ELSE LET admin_id_to_remove == ParseInt(args[1])
             t1 == Called([t EXCEPT !.target = admin_id_to_remove], "remove_admin")
             r == UM_remove_admin(w, admin_id_to_remove)
         IN  IF r.raised
             THEN Seg(r.w, [t1 EXCEPT !.pc = "aborted"])
             ELSE IF r.ret
             THEN Seg(r.w, Reply(t1, "User ID has been removed from admins.",
                                 "removed_replied"))
             ELSE Seg(r.w, Reply(t1, "Failed to remove user ID from admins. Cannot remove the last admin.",
                                 "final"))

\* QuitSmokingBot.remove_admin (/remove_admin), up to its first await
remove_admin(w, t, args) ==
    IF ~UM_is_admin(w, t.user)
    THEN Seg(w, Reply(t, PermissionDenied, "final"))
    ELSE IF Len(args) # 1
    THEN Seg(w, Reply(t, "Please provide a user ID to remove from admins.", "final"))
    ELSE IF ~IsNumeric(args[1])
    THEN Seg(w, Reply(t, "Invalid user ID. Please provide a numeric user ID.", "final"))
    ELSE LET admin_id_to_remove == ParseInt(args[1])
             t1 == [t EXCEPT !.target = admin_id_to_remove]
         IN  IF admin_id_to_remove = t.user
             THEN Seg(w, Reply(t1, SelfRemovalText, "final"))
             ELSE IF ~UM_is_admin(w, admin_id_to_remove)
             THEN Seg(w, Reply(t1, "User ID is not an admin.", "final"))
             ELSE LET r == UM_remove_admin(w, admin_id_to_remove)
                      t2 == Called(t1, "remove_admin")
                  IN  IF r.raised
                      THEN Seg(r.w, [t2 EXCEPT !.pc = "aborted"])
                      ELSE IF r.ret
                      THEN Seg(r.w, Reply(t2, "User ID has been removed from admins.",
                                          "removed_replied"))
                      ELSE Seg(r.w, Reply(t2, "Failed to remove user ID from admins. Cannot remove the last admin.",
                                          "final"))

\* the part decline_admin and the inline button share: remove_admin(user_id)
\* and the reply that depends on its result
DeclineRemoval(w, t) ==
    LET r == UM_remove_admin(w, t.user)
        t1 == Called(t, "remove_admin")
    IN  IF r.raised
        THEN Seg(r.w, [t1 EXCEPT !.pc = "aborted"])
        ELSE IF r.ret
        THEN Seg(r.w, Reply(t1, DeclinedText, "declined_replied"))
        ELSE Seg(r.w, Reply(t1, "Failed to decline administrator privileges.", "final"))

\* decline_admin that takes the requester out of the list itself, with no
\* last-administrator test
decline_admin_unguarded(w, t) ==
    IF ~UM_is_admin(w, t.user)
    THEN Seg(w, Reply(t, NotAnAdminText, "final"))
    ELSE Seg(UM_save_admins([w EXCEPT !.admins = Without(@, t.user)]),
             Reply(t, DeclinedText, "declined_replied"))

\* QuitSmokingBot.decline_admin (/decline_admin), up to its first await
decline_admin(w, t) ==
    IF ~UM_is_admin(w, t.user)
    THEN Seg(w, Reply(t, NotAnAdminText, "final"))
    ELSE IF Len(UM_get_all_admins(w).items) <= 1
    THEN Seg(w, Reply(t, LastAdminText, "final"))
    ELSE DeclineRemoval(w, t)

\* QuitSmokingBot.handle_callback_query: await query.answer() comes first
handle_callback_query(w, t, data) ==
    Seg(w, [t EXCEPT !.data = data, !.pc = "cb_answered"])

\* the button with the last-administrator test on the list length alone
handle_callback_query_resume_any_last(w, t, ok) ==
    LET t1 == t
        all_admins == UM_get_all_admins(w).items
    IN  IF ~ok
        THEN Seg(w, [t EXCEPT !.pc = "aborted"])
        ELSE IF t.data # "decline_admin"
        THEN Seg(w, [t1 EXCEPT !.pc = "done"])
        ELSE IF Len(all_admins) <= 1
        THEN Seg(w, Reply(t1, LastAdminText, "final"))
        ELSE IF ~UM_is_admin(w, t.user)
        THEN Seg(w, Reply(t1, NotAnAdminText, "final"))
        ELSE DeclineRemoval(w, t1)

\* handle_callback_query after query.answer() returned or raised
handle_callback_query_resume(w, t, ok) ==
    LET t1 == t
        all_admins == UM_get_all_admins(w).items
    IN  IF ~ok
        THEN Seg(w, [t EXCEPT !.pc = "aborted"])
        ELSE IF t.data # "decline_admin"
        THEN Seg(w, [t1 EXCEPT !.pc = "done"])
        ELSE IF Len(all_admins) <= 1 /\ t.user \in Range(all_admins)
        THEN Seg(w, Reply(t1, LastAdminText, "final"))
        ELSE IF ~UM_is_admin(w, t.user)
        THEN Seg(w, Reply(t1, NotAnAdminText, "final"))
        ELSE DeclineRemoval(w, t1)

(* ------------------------------------- src/src/bot.py, setup/run/shutdown *)
ADMIN_COMMANDS == {"/notify_all", "/list_users", "/list_admins"}

USER_COMMANDS == {"/start", "/status"}

\* the keys of the command_handlers dict of setup()
command_handlers ==
    {"/start", "/status", "/my_id", "/notify_all", "/list_users",
     "/list_admins", "/add_admin", "/remove_admin", "/decline_admin"}

\* QuitSmokingBot.__init__: nothing built, _running False, the event clear.
\* handlers: the commands with a CommandHandler added to the application;
\* signals / calls: SIGTERM or SIGINT deliveries and shutdown() calls so far;
\* cleanups: how often shutdown() got past its _running guard.
Constructed ==
    [pc |-> "constructed", running |-> FALSE, handlers |-> {},
     callback |-> FALSE, scheduler |-> "none", app |-> "none",
     event |-> FALSE, signals |-> 0, calls |-> 0, cleanups |-> 0]

\* QuitSmokingBot.setup: False without a token or when building raises;
\* otherwise a CommandHandler for every key of command_handlers that is in
\* USER_COMMANDS or ADMIN_COMMANDS, the CallbackQueryHandler, the cron job
setup(l, token, built) ==
    IF ~token \/ ~built
    THEN [ok |-> FALSE, l |-> l]
    ELSE [ok |-> TRUE,
          l |-> [l EXCEPT
                   !.app = "built",
                   !.handlers = {c \in command_handlers :
                                    c \in USER_COMMANDS \/ c \in ADMIN_COMMANDS},
                   !.callback = TRUE,
                   !.scheduler = "added"]]

\* QuitSmokingBot.shutdown: returns at once unless _running; else clears
\* _running, stops a running scheduler, awaits application.stop() and
\* application.shutdown() and sets the event; an exception of either await
\* is logged and ends the call
shutdown(l, stop_ok, shutdown_ok) ==
    LET l0 == [l EXCEPT !.calls = @ + 1]
    IN  IF ~l.running THEN l0
        ELSE LET l1 == [l0 EXCEPT !.running = FALSE, !.cleanups = @ + 1,
                                  !.scheduler = IF @ = "running" THEN "stopped"
                                                ELSE @]
             IN  IF l1.app = "none" THEN [l1 EXCEPT !.event = TRUE]
                 ELSE IF ~stop_ok THEN l1
                 ELSE IF ~shutdown_ok THEN [l1 EXCEPT !.app = "stopped"]
                 ELSE [l1 EXCEPT !.app = "shutdown", !.event = TRUE]

\* async_shutdown of main(): bot._running = False, then await bot.shutdown()
async_shutdown(l, stop_ok, shutdown_ok) ==
    shutdown([l EXCEPT !.running = FALSE], stop_ok, shutdown_ok)

(* ----------------------------------------------------------------- steps *)
\* A handler whose next statement after the awaited call is its return
\* (pc "final": the last reply_text, pc "commands": update_commands_for_user,
\* which catches every exception) touches nothing between the call and its
\* end, so the call and its answer are taken as one step: a reply that
\* raises ends the handler with the exception.
Settle(seg, ok) ==
    CASE seg.t.pc = "final" ->
             [seg EXCEPT !.t.pc = IF ok THEN "done" ELSE "aborted"]
      [] seg.t.pc = "commands" -> [seg EXCEPT !.t.pc = "done"]
      [] OTHER -> seg

Install(seg, s) ==
    /\ users' = seg.w.users
    /\ admins' = seg.w.admins
    /\ usersFile' = seg.w.usersFile
    /\ adminsFile' = seg.w.adminsFile
    /\ disk' = seg.w.disk
    /\ tasks' = [tasks EXCEPT ![s] = seg.t]
    /\ UNCHANGED <<call, rest>>

\* first synchronous segment of the handler of a command
Begin(w, kind, u, args, data) ==
    LET t == NewTask(kind, u)
    IN  CASE kind = "start"         -> start(w, t)
          [] kind = "notify_all"    -> manual_notification(w, t)
          [] kind = "list_users"    -> list_users(w, t)
          [] kind = "list_admins"   -> list_admins(w, t)
          [] kind = "add_admin"     -> add_admin(w, t, args)
          [] kind = "remove_admin"  -> remove_admin(w, t, args)
          [] kind = "decline_admin" -> decline_admin(w, t)
          [] kind = "callback"      -> handle_callback_query(w, t, data)
          [] kind = "scheduled"     -> scheduled_notification_job(w, t)
          [] kind = "legacy_job"    -> legacy_send_monthly_notification(w, t)

\* the segment that runs when the awaited call returned (ok) or raised
Resume(w, t, ok) ==
    CASE t.pc = "start_replied"    -> start_resume(w, t, ok)
      [] t.pc = "sending"          ->
             Seg(w, send_notifications_resume(Seen(w, t), ok))
      [] t.pc = "legacy_sending"   -> legacy_send_resume(w, t, ok)
      [] t.pc = "notify_replied"   -> manual_notification_resume(w, t, ok)
      [] t.pc = "cb_answered"      -> handle_callback_query_resume(w, t, ok)
      [] t.pc \in {"added_replied", "removed_replied"} ->
             \* the confirmation is outside the inner try: a raise propagates;
             \* otherwise the target is notified by send_message
             IF ok THEN Seg(w, Send(t, t.target, "notified"))
                   ELSE Seg(w, [t EXCEPT !.pc = "aborted"])
      [] t.pc = "notified"         ->
             \* inner try/except: a failed notification is logged, else
             \* update_commands_for_user is awaited
             IF ok THEN Seg(w, [t EXCEPT !.pc = "commands"])
                   ELSE Seg(w, [t EXCEPT !.pc = "done"])
      [] t.pc = "declined_replied" ->
             IF ok THEN Seg(w, [t EXCEPT !.pc = "commands"])
                   ELSE Seg(w, [t EXCEPT !.pc = "aborted"])

\* the handler methods an update can be handed to (the unit tests call each
\* of them directly); which of them setup() gives a CommandHandler is
\* life.handlers
Commands == {"start", "notify_all", "list_users", "list_admins",
             "add_admin", "remove_admin", "decline_admin", "callback"}

\* argument lists a user may type after /add_admin or /remove_admin
ArgChoices == {<<>>, <<NonNumeric>>, <<1, 2>>} \cup {<<i>> : i \in Ids}

\* callback_data of the inline buttons a user may press
DataChoices == {"decline_admin", "other"}

\* the updates a user may send: a command, with an argument list where the
\* handler reads context.args, or a button press with its callback_data
Updates ==
    {[kind |-> k, args |-> a, data |-> d] :
        k \in Commands, a \in ArgChoices, d \in DataChoices \cup {""}}

Wellformed(upd) ==
    /\ upd.args # <<>> => upd.kind \in {"add_admin", "remove_admin"}
    /\ upd.data # "" <=> upd.kind = "callback"

Finished(t) == t.pc \in {"done", "aborted"}

\* a coroutine that has returned or raised is dropped before the event loop
\* runs anything else
FirstFree(s) ==
    /\ \A r \in Slots : ~Finished(tasks[r])
    /\ tasks[s].pc = "idle"
    /\ \A r \in Slots : r < s => tasks[r].pc # "idle"

\* an update arrives and its handler runs up to its first await
Invoke(s) ==
    /\ FirstFree(s)
    /\ \E upd \in {x \in Updates : Wellformed(x)}, u \in Ids, ok \in BOOLEAN :
          Install(Settle(Begin(World, upd.kind, u, upd.args, upd.data), ok), s)

\* the scheduler fires the monthly job
Fire(s) ==
    /\ FirstFree(s)
    /\ \E kind \in {"scheduled", "legacy_job"} :
          Install(Settle(Begin(World, kind, 0, <<>>, ""), TRUE), s)

\* the transport answers the call a coroutine is awaiting
Answer(s) ==
    /\ \A r \in Slots : ~Finished(tasks[r])
    /\ tasks[s].pc # "idle"
    /\ \E ok, last \in BOOLEAN :
          Install(Settle(Resume(World, tasks[s], ok), last), s)

\* the framework drops a finished coroutine
Retire(s) ==
    /\ Finished(tasks[s])
    /\ tasks' = [tasks EXCEPT ![s] = Idle]
    /\ UNCHANGED <<users, admins, usersFile, adminsFile, disk, call, rest>>

(* ------------------------------------------- direct UserManager calls *)
\* the last method called directly on the UserManager: its argument, the
\* object before the call, and what the call gave back
CallRecord(method, id, before, r) ==
    [method |-> method, id |-> id, before |-> before,
     ret |-> r.ret, raised |-> r.raised, saved |-> r.saved]

AllOk == [users |-> "ok", admins |-> "ok"]

NoCall ==
    CallRecord("none", 0,
               [users |-> <<>>, admins |-> <<>>,
                usersFile |-> <<>>, adminsFile |-> <<>>, writable |-> TRUE,
                disk |-> AllOk],
               UMResult(<<>>, FALSE, FALSE, <<>>))

Direct(method, id, r) ==
    /\ users' = r.w.users
    /\ admins' = r.w.admins
    /\ usersFile' = r.w.usersFile
    /\ adminsFile' = r.w.adminsFile
    /\ disk' = r.w.disk
    /\ call' = CallRecord(method, id, World, r)
    /\ UNCHANGED <<tasks, rest>>

CallAddUser == \E id \in Ids : Direct("add_user", id, UM_add_user(World, id))

CallAddAdmin == \E id \in Ids : Direct("add_admin", id, UM_add_admin(World, id))

CallRemoveAdmin ==
    \E id \in Ids : Direct("remove_admin", id, UM_remove_admin(World, id))

(* -------------------------------------------------------- specifications *)
NoCalc == [op |-> "none", arg |-> <<>>, out |-> <<>>, done |-> FALSE]

\* a function named, its argument chosen, not yet called
Pending(op, arg) == [op |-> op, arg |-> arg, out |-> <<>>, done |-> FALSE]

\* the call returns
Returned(c, out) == [c EXCEPT !.out = out, !.done = TRUE]

\* the data directory is writable, no pure function is under test, no quotes
\* file is loaded
RestIdle ==
    /\ writable = TRUE
    /\ disk = AllOk
    /\ calc = NoCalc
    /\ quotes = <<>>
    /\ last_used_quotes = ""
    /\ life = Constructed

\* a fresh deployment: no users, no admins
Init ==
    /\ users = <<>>
    /\ admins = <<>>
    /\ usersFile = <<>>
    /\ adminsFile = <<>>
    /\ tasks = [s \in Slots |-> Idle]
    /\ call = NoCall
    /\ RestIdle

Next == \E s \in Slots : Invoke(s) \/ Fire(s) \/ Answer(s) \/ Retire(s)

\* the bot: commands, button presses and the scheduler
Spec == Init /\ [][Next]_vars

\* UserManager.__init__ over any stored lists (_load_users, _load_admins)
InitUM ==
    /\ users \in Perms(Ids)
    /\ admins \in Perms(Ids)
    /\ usersFile = users
    /\ adminsFile = admins
    /\ tasks = [s \in Slots |-> Idle]
    /\ call = NoCall
    /\ RestIdle

NextUM == CallAddUser \/ CallAddAdmin \/ CallRemoveAdmin

\* the UserManager alone, its methods called in any order
SpecUM == InitUM /\ [][NextUM]_vars

(* ------------------------------- the UserManager over failing storage *)
\* the data directory stops accepting writes (read-only, full), or accepts
\* them again
Fault ==
    /\ writable' = ~writable
    /\ UNCHANGED <<users, admins, usersFile, adminsFile, tasks, call, disk,
                   calc, quotes, last_used_quotes, life>>

\* the process is restarted: a new UserManager loads both files
Restart ==
    LET w == UM_init(World)
    IN  /\ users' = w.users
        /\ admins' = w.admins
        /\ call' = CallRecord("__init__", 0, World,
                              UMResult(w, [users |-> w.users, admins |-> w.admins],
                                       FALSE, <<>>))
        /\ tasks' = [s \in Slots |-> Idle]
        /\ UNCHANGED <<usersFile, adminsFile, disk, rest>>

NextStore == CallAddUser \/ CallAddAdmin \/ Fault \/ Restart

\* the UserManager, its mutators called in any order, over a data directory
\* that may refuse writes, with restarts in between
SpecStore == InitUM /\ [][NextStore]_vars

(* ------------------------------------------- startup over damaged files *)
FileStates == {"ok", "missing", "corrupt"}

\* the bot has just been constructed (UserManager.__init__) over the files
\* an earlier run left, each of them intact, missing or corrupt
InitBoot ==
    /\ usersFile \in Perms(Ids)
    /\ adminsFile \in Perms(Ids)
    /\ disk \in [{"users", "admins"} -> FileStates]
    /\ writable = TRUE
    /\ LET before == [users |-> usersFile, admins |-> adminsFile,
                      usersFile |-> usersFile, adminsFile |-> adminsFile,
                      writable |-> writable, disk |-> disk]
           w == UM_init(before)
       IN  /\ users = w.users
           /\ admins = w.admins
           /\ call = CallRecord("__init__", 0, before,
                                UMResult(w, [users |-> w.users, admins |-> w.admins],
                                         FALSE, <<>>))
    /\ tasks = [s \in Slots |-> Idle]
    /\ calc = NoCalc
    /\ quotes = <<>>
    /\ last_used_quotes = ""
    /\ life = Constructed

\* a user sends /start
StartCommand ==
    /\ FirstFree(1)
    /\ \E u \in Ids, ok \in BOOLEAN :
          Install(Settle(Begin(World, "start", u, <<>>, ""), ok), 1)

NextBoot == StartCommand \/ Answer(1) \/ Retire(1)

\* the first /start commands after a startup, one handler at a time
SpecBoot == InitBoot /\ [][NextBoot]_vars

(* ------------------------------------------------- the prize fund alone *)
PrizeFundOf(op, months) ==
    IF op = "calculate_prize_fund" THEN calculate_prize_fund(months)
                                   ELSE legacy_calculate_prize_fund(months)

\* the bot itself is not running
BotIdle ==
    /\ users = <<>> /\ admins = <<>>
    /\ usersFile = <<>> /\ adminsFile = <<>>
    /\ tasks = [s \in Slots |-> Idle]
    /\ call = NoCall
    /\ writable = TRUE
    /\ disk = AllOk
    /\ life = Constructed

bot == <<users, admins, usersFile, adminsFile, tasks, call, writable, disk,
        life>>

\* either calculate_prize_fund, about to be called with any month index
InitFund ==
    /\ BotIdle
    /\ quotes = <<>>
    /\ last_used_quotes = ""
    /\ \E op \in {"calculate_prize_fund", "legacy_calculate_prize_fund"},
          months \in (-2)..MaxMonths : calc = Pending(op, months)

CallPrizeFund ==
    /\ calc.op \in {"calculate_prize_fund", "legacy_calculate_prize_fund"}
    /\ ~calc.done
    /\ calc' = Returned(calc, PrizeFundOf(calc.op, calc.arg))
    /\ UNCHANGED <<bot, quotes, last_used_quotes>>

\* the same function called for the following month
CallPrizeFundNextMonth ==
    /\ calc.op \in {"calculate_prize_fund", "legacy_calculate_prize_fund"}
    /\ calc.done
    /\ calc.arg < MaxMonths
    /\ calc' = Returned([calc EXCEPT !.arg = calc.arg + 1],
                        PrizeFundOf(calc.op, calc.arg + 1))
    /\ UNCHANGED <<bot, quotes, last_used_quotes>>

NextFund == CallPrizeFund \/ CallPrizeFundNextMonth

SpecFund == InitFund /\ [][NextFund]_vars

(* ---------------------------------------------- calculate_period alone *)
\* the time of day both dates carry: calculate_period reads year, month and
\* day only
PeriodTimes == {<<NOTIFICATION_HOUR, NOTIFICATION_MINUTE>>}

\* start dates: every day of a leap year; end dates: that year and later
PeriodStarts == DateTimes({START_YEAR - 1}, PeriodTimes)

PeriodEnds == DateTimes((START_YEAR - 1)..(START_YEAR - 1 + MaxYears), PeriodTimes)

InitPeriod ==
    /\ BotIdle
    /\ quotes = <<>>
    /\ last_used_quotes = ""
    /\ \E start_date \in PeriodStarts, end_date \in PeriodEnds :
          calc = Pending("calculate_period",
                         [start_date |-> start_date, end_date |-> end_date])

CallPeriod ==
    /\ calc.op = "calculate_period"
    /\ ~calc.done
    /\ calc' = Returned(calc, calculate_period(calc.arg.start_date,
                                               calc.arg.end_date))
    /\ UNCHANGED <<bot, quotes, last_used_quotes>>

NextPeriod == CallPeriod

SpecPeriod == InitPeriod /\ [][NextPeriod]_vars

(* ------------------------------------------------------ the quotes alone *)
QuoteTexts == <<"a", "b", "c">>

\* a quotes file of n entries that repeats the first k texts in order
RawQuotes(n, k) == [i \in 1..n |-> QuoteTexts[((i - 1) % k) + 1]]

RawLens == (0..MaxRaw) \cup {Coverage - 1, Coverage, Coverage + 1}

\* either bot, about to load any quotes file
InitQuotes ==
    /\ BotIdle
    /\ quotes = <<>>
    /\ last_used_quotes = ""
    /\ \E op \in {"_load_quotes", "load_quotes"},
          n \in RawLens, k \in 1..Len(QuoteTexts) :
          calc = Pending(op, RawQuotes(n, k))

\* QuotesManager.__init__ / QUOTES = load_quotes()
LoadQuotes ==
    /\ calc.op \in {"_load_quotes", "load_quotes"}
    /\ ~calc.done
    /\ quotes' = IF calc.op = "_load_quotes" THEN QM_load_quotes(calc.arg)
                                             ELSE legacy_load_quotes(calc.arg)
    /\ calc' = Returned(calc, <<>>)
    /\ UNCHANGED <<bot, last_used_quotes>>

\* self.quotes_manager.get_random_quote(user_id)
GetQuote ==
    /\ calc.op \in {"_load_quotes", "get_random_quote"}
    /\ calc.done
    /\ \E r \in QM_get_random_quote(quotes) :
          calc' = Returned([calc EXCEPT !.op = "get_random_quote"], r)
    /\ UNCHANGED <<bot, quotes, last_used_quotes>>

\* get_random_quote(user_id) of src/bot.py, which remembers what it returned
LegacyGetQuote ==
    /\ calc.op \in {"load_quotes", "legacy_get_random_quote"}
    /\ calc.done
    /\ \E r \in legacy_get_random_quote(quotes, last_used_quotes) :
          /\ calc' = Returned([calc EXCEPT !.op = "legacy_get_random_quote"], r)
          /\ last_used_quotes' =
                 IF r.raised \/ r.quote = FallbackQuote THEN last_used_quotes
                 ELSE r.quote
    /\ UNCHANGED <<bot, quotes>>

NextQuotes == LoadQuotes \/ GetQuote \/ LegacyGetQuote

SpecQuotes == InitQuotes /\ [][NextQuotes]_vars

(* ------------------------------------------------ the status report alone *)
\* times of day at which the report is asked for: midnight and the minutes
\* around the notification time
StatusTimes ==
    {<<0, 0>>,
     <<NOTIFICATION_HOUR, NOTIFICATION_MINUTE - 1>>,
     <<NOTIFICATION_HOUR, NOTIFICATION_MINUTE>>,
     <<NOTIFICATION_HOUR, NOTIFICATION_MINUTE + 1>>}

StatusNows == DateTimes(START_YEAR..(START_YEAR + MaxYears), StatusTimes)

\* datetime.datetime.now(BOT_TIMEZONE) is any of these moments
InitStatus ==
    /\ BotIdle
    /\ quotes = <<>>
    /\ last_used_quotes = ""
    /\ \E now \in StatusNows : calc = Pending("get_status_info", now)

CallStatus ==
    /\ calc.op = "get_status_info"
    /\ ~calc.done
    /\ \E r \in QM_get_random_quote(quotes) :
          calc' = Returned(calc, get_status_info(calc.arg, r.quote))
    /\ UNCHANGED <<bot, quotes, last_used_quotes>>

\* d + datetime.timedelta(days=1)
DayAfter(d) ==
    IF d.day < DaysInMonth(d.year, d.month) THEN [d EXCEPT !.day = d.day + 1]
    ELSE IF d.month < 12
         THEN [d EXCEPT !.month = d.month + 1, !.day = 1]
         ELSE [d EXCEPT !.year = d.year + 1, !.month = 1, !.day = 1]

\* the report is asked for again a day later
CallStatusNextDay ==
    /\ calc.op = "get_status_info"
    /\ calc.done
    /\ DayAfter(calc.arg) \in StatusNows
    /\ \E r \in QM_get_random_quote(quotes) :
          calc' = Returned(Pending("get_status_info", DayAfter(calc.arg)),
                           get_status_info(DayAfter(calc.arg), r.quote))
    /\ UNCHANGED <<bot, quotes, last_used_quotes>>

NextStatus == CallStatus \/ CallStatusNextDay

SpecStatus == InitStatus /\ [][NextStatus]_vars

(* --------------------------------- callers of get_all_users / get_all_admins *)
\* list.remove(x): the first entry equal to x goes
RemoveFirst(list, x) ==
    LET i == CHOOSE k \in 1..Len(list) :
                 list[k] = x /\ \A j \in 1..(k - 1) : list[j] # x
    IN  [j \in 1..(Len(list) - 1) |-> IF j < i THEN list[j] ELSE list[j + 1]]

\* a caller asks the UserManager for one of its lists and keeps what it got
GetAll ==
    /\ \E op \in {"get_all_users", "get_all_admins"} :
          calc' = Returned(Pending(op, IF op = "get_all_users" THEN users ELSE admins),
                           IF op = "get_all_users" THEN UM_get_all_users(World)
                                                   ELSE UM_get_all_admins(World))
    /\ UNCHANGED <<bot, quotes, last_used_quotes>>

\* the caller changes the list object it holds; a list of the UserManager
\* changes with it exactly when it is that same object
MutateHeld(items) ==
    /\ calc' = [calc EXCEPT !.out = ListObject(calc.out.obj, items)]
    /\ users' = IF calc.out.obj = "users" THEN items ELSE users
    /\ admins' = IF calc.out.obj = "admins" THEN items ELSE admins
    /\ UNCHANGED <<usersFile, adminsFile, tasks, call, writable, disk,
                   quotes, last_used_quotes, life>>

HoldsList == calc.done /\ calc.op \in {"get_all_users", "get_all_admins"}

\* returned.append(x)
CallerAppend ==
    /\ HoldsList
    /\ Len(calc.out.items) <= NumIds
    /\ \E x \in Ids \cup {0} : MutateHeld(Append(calc.out.items, x))

\* returned.remove(x)
CallerRemove ==
    /\ HoldsList
    /\ \E x \in Range(calc.out.items) : MutateHeld(RemoveFirst(calc.out.items, x))

NextCopy == GetAll \/ CallerAppend \/ CallerRemove

\* a UserManager over any stored lists, and a caller of its two getters
SpecCopy == InitUM /\ [][NextCopy]_vars

(* ------------------------------------------------ a send that never returns *)
\* bot.send_message of the dispatch loop never returns: the coroutine stays
\* suspended at that await (the loop sets no timeout of its own)
Hang(s) ==
    /\ tasks[s].pc = "sending"
    /\ tasks' = [tasks EXCEPT ![s].pc = "hung"]
    /\ UNCHANGED <<users, admins, usersFile, adminsFile, disk, call, rest>>

\* the transport answers any awaited call but a hung one
AnswerUnlessHung(s) == tasks[s].pc # "hung" /\ Answer(s)

NextHang ==
    \E s \in Slots :
        Invoke(s) \/ Fire(s) \/ AnswerUnlessHung(s) \/ Retire(s) \/ Hang(s)

\* the bot over a transport whose sends may hang; every other awaited call
\* is answered and the event loop resumes and drops coroutines as it should
SpecHang ==
    /\ Init
    /\ [][NextHang]_vars
    /\ WF_vars(\E s \in Slots : AnswerUnlessHung(s))
    /\ WF_vars(\E s \in Slots : Retire(s))

(* ------------------------------------------------- the process lifecycle *)
\* Signals delivered to the process, and shutdown() calls made, in one run.
MaxSignals == 2

LifeStep(l) ==
    /\ life' = l
    /\ UNCHANGED <<users, admins, usersFile, adminsFile, tasks, call,
                   writable, disk, calc, quotes, last_used_quotes>>

\* run(): "if not await self.setup(): return", then self._running = True
RunSetup ==
    /\ life.pc = "constructed"
    /\ \E token, built \in BOOLEAN :
          LET r == setup(life, token, built)
          IN  IF r.ok
              THEN LifeStep([r.l EXCEPT !.running = TRUE, !.pc = "scheduler_start"])
              ELSE LifeStep([r.l EXCEPT !.pc = "exited"])

\* the try block of run(), one statement at a time; a statement that raises
\* goes to "except Exception", which logs, and on to the finally clause
RunTry ==
    /\ life.pc \in {"scheduler_start", "initialize", "start", "start_polling"}
    /\ \E ok \in BOOLEAN :
          IF ~ok THEN LifeStep([life EXCEPT !.pc = "finally"])
          ELSE CASE life.pc = "scheduler_start" ->
                        LifeStep([life EXCEPT !.scheduler = "running",
                                              !.pc = "initialize"])
                 [] life.pc = "initialize" ->
                        LifeStep([life EXCEPT !.app = "initialized", !.pc = "start"])
                 [] life.pc = "start" ->
                        \* set_bot_commands follows and catches every exception
                        LifeStep([life EXCEPT !.app = "started",
                                              !.pc = "start_polling"])
                 [] life.pc = "start_polling" ->
                        LifeStep([life EXCEPT !.app = "polling", !.pc = "loop"])

\* "while self._running: await asyncio.sleep(1)" finds _running False
RunLoopExit ==
    /\ life.pc = "loop"
    /\ ~life.running
    /\ LifeStep([life EXCEPT !.pc = "finally"])

\* the finally clause of run(): "if self._running: await self.shutdown()";
\* run() returns and main() ends the process
RunFinally ==
    /\ life.pc = "finally"
    /\ \E stop_ok, shutdown_ok \in BOOLEAN :
          LET l == IF life.running THEN shutdown(life, stop_ok, shutdown_ok)
                                   ELSE life
          IN  LifeStep([l EXCEPT !.pc = "exited"])

\* someone calls bot.shutdown() while run() is in its loop
CallShutdown ==
    /\ life.pc = "loop"
    /\ life.calls < MaxSignals
    /\ \E stop_ok, shutdown_ok \in BOOLEAN :
          LifeStep(shutdown(life, stop_ok, shutdown_ok))

\* SIGTERM or SIGINT reaches the process once run() has set _running.
\* signal_handler runs in the main thread, on top of whatever the running
\* event loop is executing, and calls run_until_complete on a new loop.
\* Whether that call can run a coroutine is up to asyncio: "handled" is
\* async_shutdown run to its end; otherwise run_until_complete raises
\* RuntimeError (another loop is running) and the exception surfaces where
\* the main thread was: in the loop's own code ("loop": it leaves
\* run_until_complete(bot.run()) and main() ends the process), in run()
\* ("run": caught by its except Exception), or in some other callback
\* ("task": logged by the loop, the bot goes on).
SignalOutcomes == {"handled", "loop", "run", "task"}

signal_handler(l, outcome, stop_ok, shutdown_ok) ==
    LET l1 == [l EXCEPT !.signals = @ + 1]
    IN  CASE outcome = "handled" -> async_shutdown(l1, stop_ok, shutdown_ok)
          [] outcome = "loop"    -> [l1 EXCEPT !.pc = "exited"]
          [] outcome = "run"     -> [l1 EXCEPT !.pc = "finally"]
          [] outcome = "task"    -> l1

Signal ==
    /\ life.pc \in {"scheduler_start", "initialize", "start", "start_polling",
                    "loop"}
    /\ life.running
    /\ life.signals < MaxSignals
    /\ \E outcome \in SignalOutcomes, stop_ok, shutdown_ok \in BOOLEAN :
          LifeStep(signal_handler(life, outcome, stop_ok, shutdown_ok))

NextLife ==
    RunSetup \/ RunTry \/ RunLoopExit \/ RunFinally \/ CallShutdown \/ Signal

\* main(): the bot constructed, run() started, signals arriving
SpecLife == Init /\ [][NextLife]_vars

(* ------------------------------------- two coroutines on the event loop *)
\* two handler coroutines, whatever MaxTasks is
PairSlots == {1, 2}

InitPair ==
    /\ users = <<>>
    /\ admins = <<>>
    /\ usersFile = <<>>
    /\ adminsFile = <<>>
    /\ tasks = [s \in PairSlots |-> Idle]
    /\ call = NoCall
    /\ RestIdle

\* /start or /notify_all arrives and its handler runs up to its first await
PairInvoke(s) ==
    /\ tasks[s].pc = "idle"
    /\ \E kind \in {"start", "notify_all"}, u \in Ids, ok \in BOOLEAN :
          Install(Settle(Begin(World, kind, u, <<>>, ""), ok), s)

\* the scheduler fires scheduled_notification_job
PairFire(s) ==
    /\ tasks[s].pc = "idle"
    /\ Install(Settle(Begin(World, "scheduled", 0, <<>>, ""), TRUE), s)

\* the transport answers the call the coroutine in slot s is awaiting; the
\* other coroutine stays where it is
PairAnswer(s) ==
    /\ tasks[s].pc \notin {"idle", "done", "aborted"}
    /\ \E ok, last \in BOOLEAN :
          Install(Settle(Resume(World, tasks[s], ok), last), s)

NextPair ==
    \E s \in PairSlots : PairInvoke(s) \/ PairFire(s) \/ PairAnswer(s) \/ Retire(s)

\* /start, /notify_all and the scheduled job, two coroutines interleaved at
\* their awaits in every order
SpecPair == InitPair /\ [][NextPair]_vars

(* ---------------------------------------------------------------- claims *)
\* slot s takes the first segment of a handler of this kind in this step
Begins(s, kind) == tasks[s].pc = "idle" /\ tasks'[s].kind = kind

\* the coroutine in slot s takes a step
Steps(s) ==
    /\ tasks[s].pc \notin {"idle", "done", "aborted"}
    /\ tasks'[s] # tasks[s]

RegistryUnchanged == UNCHANGED <<users, admins, usersFile, adminsFile>>

\* C1: under any sequence of /start, /add_admin, /remove_admin,
\* /decline_admin commands and decline_admin button presses, an admin list
\* that is non-empty is still non-empty after the next step.
C1_AdminListStaysNonEmpty == [][admins # <<>> => admins' # <<>>]_vars

\* C1 witness: a removal was attempted by a handler while admins existed.
C1_Witness ==
    \E s \in Slots :
        /\ tasks[s].kind \in {"remove_admin", "decline_admin", "callback"}
        /\ tasks[s].calls = <<"remove_admin">>
        /\ Finished(tasks[s])
        /\ Len(admins) >= 2

\* C2: UserManager.remove_admin(id) on the admin list [id] returns False,
\* leaves the list as it was and saves nothing.
C2_LastAdminRemovalRejected ==
    (call.method = "remove_admin" /\ call.before.admins = <<call.id>>)
        => /\ ~call.raised
           /\ call.ret = FALSE
           /\ admins = call.before.admins
           /\ call.saved = <<>>

\* C3: UserManager.remove_admin(id) returns True exactly when id is an admin
\* and there are at least two admins; on True exactly id is removed and the
\* admins file is saved once; on False nothing changes and nothing is saved.
C3_RemoveAdminContract ==
    call.method = "remove_admin"
        => /\ ~call.raised
           /\ call.ret <=> (call.id \in Range(call.before.admins)
                               /\ Len(call.before.admins) >= 2)
           /\ call.ret => /\ admins = Without(call.before.admins, call.id)
                          /\ call.saved = <<"admins">>
                          /\ adminsFile = admins
           /\ ~call.ret => /\ admins = call.before.admins
                           /\ call.saved = <<>>
                           /\ adminsFile = call.before.adminsFile

\* the contract add_user and add_admin share, for the list they own
AddContract(method, list, file, before, beforeFile, otherSame) ==
    call.method = method
        => /\ ~call.raised
           /\ call.ret <=> call.id \notin Range(before)
           /\ call.ret => /\ list = Append(before, call.id)
                          /\ call.saved = <<IF method = "add_user" THEN "users" ELSE "admins">>
                          /\ file = list
           /\ ~call.ret => /\ list = before
                           /\ call.saved = <<>>
                           /\ file = beforeFile
           /\ call.id \in Range(list)
           /\ otherSame

C4_AddState ==
    /\ AddContract("add_user", users, usersFile,
                   call.before.users, call.before.usersFile,
                   admins = call.before.admins /\ adminsFile = call.before.adminsFile)
    /\ AddContract("add_admin", admins, adminsFile,
                   call.before.admins, call.before.adminsFile,
                   users = call.before.users /\ usersFile = call.before.usersFile)

C4_SecondCall ==
    (/\ call.method \in {"add_user", "add_admin"}
     /\ call'.method = call.method
     /\ call'.id = call.id)
        => /\ ~call'.ret
           /\ call'.saved = <<>>
           /\ RegistryUnchanged

\* C4: add_user(id) and add_admin(id) return True exactly when id was absent
\* from their own list; on True id is appended and that list's file saved
\* once; a second call with the same id returns False, changes nothing and
\* saves nothing; neither method touches the other list or its file.
C4_AddUserAddAdminContract == []C4_AddState /\ [][C4_SecondCall]_vars

\* C4 witness: the same id was added twice in a row, the second call
\* returning False.
C4_Witness ==
    /\ call.method = "add_admin"
    /\ ~call.ret
    /\ call.id \in Range(call.before.admins)
    /\ call.id \notin Range(users)

C5_StartBegin ==
    \A s \in Slots :
        Begins(s, "start") =>
            LET u == tasks'[s].user
            IN  /\ admins = <<>> => admins' = <<u>>
                /\ admins # <<>> => admins' = admins
                /\ tasks'[s].replies =
                       <<IF admins = <<>> THEN FirstAdminNotice ELSE WelcomeText>>

C5_StartRest ==
    \A s \in Slots :
        (tasks[s].kind = "start" /\ Steps(s)) =>
            /\ admins' = admins
            /\ tasks'[s].replies = tasks[s].replies

C5_StartDone ==
    \A s \in Slots :
        (tasks[s].kind = "start" /\ tasks[s].pc = "done")
            => tasks[s].user \in Range(users)

\* C5: /start by u makes u an admin exactly when the admin list was empty
\* when the handler began and otherwise leaves the admin list alone; u is in
\* the user list once the handler has returned; the first-administrator
\* notice is the reply exactly when u was made admin.
C5_StartBootstrap ==
    []C5_StartDone /\ [][C5_StartBegin /\ C5_StartRest]_vars

\* C5 witness: a /start that made its user the first admin has returned.
C5_Witness ==
    \E s \in Slots :
        /\ tasks[s].kind = "start"
        /\ tasks[s].pc = "done"
        /\ tasks[s].replies = <<FirstAdminNotice>>
        /\ admins = <<tasks[s].user>>
        /\ tasks[s].user \in Range(users)

IsDispatch(t) == t.data = "dispatch"

Sending(t) == t.pc \in {"sending", "legacy_sending"}

C6_DispatchState ==
    \A s \in Slots :
        IsDispatch(tasks[s]) =>
            LET t == tasks[s]
            IN  /\ Len(t.out) <= Len(t.snap)
                /\ t.out = SubSeq(t.snap, 1, Len(t.out))
                /\ Sending(t) => Len(t.out) = t.idx
                /\ (t.kind # "notify_all" /\ ~Sending(t)) => t.out = t.snap

C6_DispatchStep ==
    \A s \in Slots :
        (Sending(tasks[s]) /\ Steps(s)) =>
            \/ /\ Sending(tasks'[s])
               /\ Len(tasks'[s].out) = Len(tasks[s].out) + 1
            \/ /\ ~Sending(tasks'[s])
               /\ tasks[s].out = tasks[s].snap
               /\ tasks'[s].pc \in {"done", "notify_replied"}

AdminOnly == {"notify_all", "list_users", "list_admins", "add_admin", "remove_admin"}

C7_DeniedBegin ==
    \A s \in Slots :
        \A kind \in AdminOnly :
            (Begins(s, kind) /\ tasks'[s].user \notin Range(admins)) =>
                /\ RegistryUnchanged
                /\ \E pc \in {"done", "aborted"} :
                       tasks'[s] = Reply(NewTask(kind, tasks'[s].user),
                                         PermissionDenied, pc)

\* C7: /notify_all, /list_users, /list_admins, /add_admin and /remove_admin
\* from a requester who is not in the admin list change neither list, start
\* no dispatch, send nothing except the permission-denied reply to the
\* requester, and then end.
C7_NonAdminDenied == [][C7_DeniedBegin]_vars

\* C7 witness: a /notify_all of a registered non-admin has ended with the
\* permission-denied reply.
C7_Witness ==
    \E s \in Slots :
        /\ tasks[s].kind = "notify_all"
        /\ tasks[s].pc = "done"
        /\ tasks[s].user \in Range(users) \ Range(admins)
        /\ admins # <<>>
        /\ tasks[s].replies = <<PermissionDenied>>

C8_OnlyUsersPromoted ==
    \A s \in Slots :
        (Begins(s, "add_admin") \/ (tasks[s].kind = "add_admin" /\ Steps(s))) =>
            \A id \in Ids :
                (id \notin Range(admins) /\ id \in Range(admins'))
                    => id \in Range(users)

C8_UnregisteredRejected ==
    \A s \in Slots :
        (/\ Begins(s, "add_admin")
         /\ tasks'[s].target # 0
         /\ tasks'[s].target \notin Range(users)) =>
            /\ admins' = admins
            /\ tasks'[s].replies = <<NotRegisteredText>>
            /\ tasks'[s].calls = <<>>
            /\ tasks'[s].out = <<>>
            /\ tasks'[s].pc \in {"done", "aborted"}

C8_NoLaterSend ==
    \A s \in Slots :
        (tasks[s].kind = "add_admin" /\ tasks[s].replies = <<NotRegisteredText>>)
            => tasks[s].out = <<>> /\ tasks[s].calls = <<>>

\* C8: /add_admin <id> never puts into the admin list an id that is not in
\* the user list at that moment: such a target gets the not-registered
\* reply, add_admin is not called and nothing is sent to the target.
C8_AddAdminNeedsRegisteredTarget ==
    []C8_NoLaterSend /\ [][C8_OnlyUsersPromoted /\ C8_UnregisteredRejected]_vars

\* C8 witness: an admin's /add_admin for an unregistered id has ended.
C8_Witness ==
    \E s \in Slots :
        /\ tasks[s].kind = "add_admin"
        /\ tasks[s].pc = "done"
        /\ tasks[s].user \in Range(admins)
        /\ tasks[s].target \in Ids \ Range(users)
        /\ tasks[s].replies = <<NotRegisteredText>>

C9_SelfRemovalBegin ==
    \A s \in Slots :
        (/\ Begins(s, "remove_admin")
         /\ tasks'[s].user \in Range(admins)
         /\ tasks'[s].target = tasks'[s].user) =>
            /\ admins' = admins
            /\ tasks'[s].replies = <<SelfRemovalText>>
            /\ tasks'[s].calls = <<>>
            /\ tasks'[s].out = <<>>
            /\ tasks'[s].pc \in {"done", "aborted"}

C9_SelfRemovalState ==
    \A s \in Slots :
        (tasks[s].kind = "remove_admin" /\ tasks[s].target = tasks[s].user)
            => /\ tasks[s].replies = <<SelfRemovalText>>
               /\ tasks[s].calls = <<>>
               /\ tasks[s].out = <<>>

\* C9: /remove_admin <id> from the admin whose own id is <id> always gets the
\* use-/decline_admin reply: remove_admin is not called, the admin list is
\* unchanged and nothing is sent to anyone else.
C9_SelfRemovalRejected == []C9_SelfRemovalState /\ [][C9_SelfRemovalBegin]_vars

\* C9 witness: an admin's /remove_admin of their own id has ended while
\* another admin existed.
C9_Witness ==
    \E s \in Slots :
        /\ tasks[s].kind = "remove_admin"
        /\ tasks[s].pc = "done"
        /\ tasks[s].target = tasks[s].user
        /\ tasks[s].user \in Range(admins)
        /\ Len(admins) >= 2

C10_DeclineBegin ==
    \A s \in Slots :
        Begins(s, "decline_admin") =>
            LET u == tasks'[s].user
            IN  /\ admins = <<u>> =>
                     /\ admins' = admins
                     /\ tasks'[s].calls = <<>>
                     /\ tasks'[s].replies = <<LastAdminText>>
                /\ u \notin Range(admins) =>
                     /\ RegistryUnchanged
                     /\ tasks'[s].calls = <<>>
                     /\ tasks'[s].replies = <<NotAnAdminText>>
                /\ (u \in Range(admins) /\ Len(admins) >= 2) =>
                     admins' = Without(admins, u)

\* C10: /decline_admin from the only admin is rejected without calling
\* remove_admin; from a non-admin it replies 'You are not an admin.' and
\* changes nothing; from an admin while at least two admins exist it removes
\* exactly the requester from the admin list.
C10_DeclineAdmin == [][C10_DeclineBegin]_vars

\* C11: calculate_prize_fund(n), as the status report calls it, returns 0
\* for every n < 0 and 5000 * (n + 1) for every n >= 0.
C11_PrizeFundLinear ==
    (calc.op = "calculate_prize_fund" /\ calc.done)
        => calc.out = IF calc.arg < 0 THEN 0 ELSE 5000 * (calc.arg + 1)

C12_FundState ==
    (calc.op = "calculate_prize_fund" /\ calc.done)
        => /\ calc.arg = -1 => calc.out = 0
           /\ calc.arg = 0 => calc.out = MONTHLY_AMOUNT
           /\ calc.out <= MAX_PRIZE_FUND

C12_FundStep ==
    (/\ calc.op = "calculate_prize_fund"
     /\ calc.done
     /\ calc.arg >= 0
     /\ calc'.arg = calc.arg + 1)
        => /\ calc'.out >= calc.out
           /\ calc.out < MAX_PRIZE_FUND
                 => calc'.out = calc.out + PRIZE_FUND_INCREASE
           /\ calc.out = MAX_PRIZE_FUND => calc'.out = calc.out

\* C12: calculate_prize_fund(-1) = 0, calculate_prize_fund(0) is the base
\* amount, each further month adds the increment until the cap is reached
\* and the fund is flat from then on; it never decreases with n and never
\* exceeds MAX_PRIZE_FUND.
C12_FundGrowsToCap == []C12_FundState /\ [][C12_FundStep]_vars

\* C12 witness: the month after the cap was reached the fund is still the cap.
C12_Witness ==
    /\ calc.op = "calculate_prize_fund"
    /\ calc.done
    /\ calc.arg = 21
    /\ calc.out = MAX_PRIZE_FUND

\* C13: for every start and end with end >= start, whatever the day of
\* month of start, calculate_period returns months in 0..11 and days >= 0.
C13_PeriodInRange ==
    (/\ calc.op = "calculate_period"
     /\ calc.done
     /\ Minutes(calc.arg.end_date) >= Minutes(calc.arg.start_date))
        => /\ calc.out.months \in 0..11
           /\ calc.out.days >= 0

\* calendar addition of whole months: the day of month is kept, or is the
\* last day of the month reached when that month is shorter
AddMonths(d, n) ==
    LET total == d.year * 12 + (d.month - 1) + n
        y == total \div 12
        m == (total % 12) + 1
    IN  [d EXCEPT !.year = y, !.month = m,
                  !.day = Min(d.day, DaysInMonth(y, m))]

\* C14: for every start and end with end >= start, start plus the years,
\* months and days that calculate_period returns, added as calendar years
\* and months and then days, is a date on the calendar day of end.
C14_PeriodReconstructs ==
    (/\ calc.op = "calculate_period"
     /\ calc.done
     /\ Minutes(calc.arg.end_date) >= Minutes(calc.arg.start_date))
        => toordinal(AddMonths(calc.arg.start_date,
                               calc.out.years * 12 + calc.out.months))
               + calc.out.days
           = toordinal(calc.arg.end_date)

\* C17: loading a raw list r gives no quotes when r is empty, exactly 240
\* quotes with entry i equal to r[i mod len(r)] when 0 < len(r) < 240, and r
\* itself when len(r) >= 240.
C17_QuotesPadded ==
    (calc.op \in {"_load_quotes", "load_quotes"} /\ calc.done)
        => LET r == calc.arg
           IN  /\ r = <<>> => quotes = <<>>
               /\ (0 < Len(r) /\ Len(r) < 240) =>
                     /\ Len(quotes) = 240
                     /\ \A i \in 0..239 : quotes[i + 1] = r[(i % Len(r)) + 1]
               /\ Len(r) >= 240 => quotes = r

\* C17 witness: a file of several quotes whose number does not divide 240
\* evenly was padded.
C17_Witness ==
    /\ calc.op = "_load_quotes"
    /\ calc.done
    /\ Len(calc.arg) = 7
    /\ Cardinality(Range(calc.arg)) = 3
    /\ Len(quotes) = 240

\* C18: get_random_quote returns the fallback string on every call when no
\* quotes are loaded; when quotes are loaded it returns one of them, never
\* the fallback, and never fails.
C18_QuoteOrFallback ==
    (calc.op \in {"get_random_quote", "legacy_get_random_quote"} /\ calc.done)
        => /\ quotes = <<>> => calc.out = Quote(FallbackQuote)
           /\ quotes # <<>> => /\ ~calc.out.raised
                               /\ calc.out.quote \in Range(quotes)
                               /\ calc.out.quote # FallbackQuote

\* the monthly anchors: day 23 at 21:58 of every month
Anchors ==
    {datetime(y, m, NOTIFICATION_DAY, NOTIFICATION_HOUR, NOTIFICATION_MINUTE) :
        y \in START_YEAR..(START_YEAR + MaxYears + 1), m \in 1..12}

\* C15: for every now >= StartInstant the month index that get_status_info
\* hands to calculate_prize_fund is the number of anchors later than
\* StartInstant and not later than now; at 2025-04-23 21:58 it is 3 and the
\* fund is 20000.
C15_MonthIndexCountsAnchors ==
    (/\ calc.op = "get_status_info"
     /\ calc.done
     /\ Minutes(calc.arg) >= Minutes(START_DATE))
        => /\ calc.out.current_month_idx =
                  Cardinality({a \in Anchors :
                                  /\ Minutes(a) > Minutes(START_DATE)
                                  /\ Minutes(a) <= Minutes(calc.arg)})
           /\ calc.arg = datetime(2025, 4, 23, 21, 58)
                  => /\ calc.out.current_month_idx = 3
                     /\ calc.out.prize_fund = 20000

\* C16: for every now >= StartInstant the next_increase_date of
\* get_status_info is an anchor strictly later than now, and the earliest
\* such anchor.
C16_NextIncreaseIsNextAnchor ==
    (/\ calc.op = "get_status_info"
     /\ calc.done
     /\ Minutes(calc.arg) >= Minutes(START_DATE))
        => /\ calc.out.next_date \in Anchors
           /\ Minutes(calc.out.next_date) > Minutes(calc.arg)
           /\ \A a \in Anchors :
                  Minutes(a) > Minutes(calc.arg)
                      => Minutes(a) >= Minutes(calc.out.next_date)

\* C19: between any two operations the persisted user list and admin list
\* are the in-memory lists, so that a restart reloads exactly the users and
\* admins held before it.
C19_PersistedIsInMemory ==
    /\ load_json_file(usersFile, disk.users, <<>>) = users
    /\ load_json_file(adminsFile, disk.admins, <<>>) = admins

C20_Constructed ==
    call.method = "__init__"
        => /\ ~call.raised
           /\ call.before.disk.users # "ok" => call.ret.users = <<>>
           /\ call.before.disk.admins # "ok" => call.ret.admins = <<>>

C20_Bootstrap ==
    \A s \in Slots :
        (Begins(s, "start") /\ call.method = "__init__" /\ admins = <<>>)
            => admins' = <<tasks'[s].user>>

\* C20: over user or admin storage that is missing, unreadable or corrupt
\* the UserManager is constructed without error, with an empty list for
\* that collection; while the admin list is empty the next user who sends
\* /start becomes the admin, whoever the admins were before.
C20_DamagedStorageBootstraps == []C20_Constructed /\ [][C20_Bootstrap]_vars

\* C20 witness: the admins file was corrupt at startup and a user who was no
\* admin before has become the only admin by /start.
C20_Witness ==
    \E s \in Slots :
        /\ call.method = "__init__"
        /\ call.before.disk.admins = "corrupt"
        /\ call.before.admins # <<>>
        /\ tasks[s].kind = "start"
        /\ tasks[s].pc = "done"
        /\ tasks[s].user \notin Range(call.before.admins)
        /\ admins = <<tasks[s].user>>

\* C21: get_all_users() and get_all_admins() return copies: whatever the
\* caller does to the list it got (append, remove), UserManager.users and
\* UserManager.admins stay as they were, and the getter still returns the
\* content it returned before.
C21_CallerStep ==
    /\ HoldsList /\ calc'.done /\ calc'.op = calc.op
    /\ calc'.out.items # calc.out.items

C21_Original ==
    HoldsList =>
        /\ calc.op = "get_all_users" => UM_get_all_users(World).items = calc.arg
        /\ calc.op = "get_all_admins" => UM_get_all_admins(World).items = calc.arg

C21_ReturnedListsAreCopies ==
    /\ []C21_Original
    /\ [][C21_CallerStep => users' = users /\ admins' = admins]_vars

\* C21 witness: the caller holds a list it got from get_all_users and has
\* changed it, and from get_all_admins likewise.
C21_Witness ==
    /\ HoldsList
    /\ calc.op = "get_all_users"
    /\ calc.arg # <<>>
    /\ calc.out.items # calc.arg
    /\ Len(calc.out.items) > Len(calc.arg)

\* C22: a dispatch run always gets to every recipient: if the send to one
\* recipient hangs, the sends to the remaining recipients are still
\* attempted and the run eventually completes.
C22_InRun(s) ==
    /\ tasks[s].kind \in {"scheduled", "notify_all"}
    /\ tasks[s].pc \in {"sending", "hung"}

C22_RunCompletes ==
    \A s \in Slots :
        C22_InRun(s) ~> (~C22_InRun(s) /\ tasks[s].pc # "hung")

\* C23: after setup() succeeds, every command of the command surface
\* (/start, /status, /my_id, /notify_all, /list_users, /list_admins,
\* /add_admin, /remove_admin, /decline_admin) has its handler registered.
C23_CommandSurface ==
    {"/start", "/status", "/my_id", "/notify_all", "/list_users",
     "/list_admins", "/add_admin", "/remove_admin", "/decline_admin"}

C23_EveryCommandRegistered ==
    life.app # "none" => C23_CommandSurface \subseteq life.handlers

\* C24: after SIGTERM or SIGINT has reached a running bot, the process does
\* not exit before shutdown() has stopped the scheduler, stopped and shut
\* down the application and set the shutdown event; and however often
\* shutdown() is called, it does these steps at most once.
C24_ShutdownOnSignal ==
    /\ (life.pc = "exited" /\ life.signals > 0)
           => /\ life.scheduler = "stopped"
              /\ life.app = "shutdown"
              /\ life.event
    /\ life.cleanups <= 1

\* C25: in the src/bot.py variant, for every non-empty loaded quote list
\* (one distinct quote included) every get_random_quote call returns a quote
\* of the list, two consecutive calls for the same key never return the same
\* quote, and the last-quote entry kept for the key is the quote returned.
C25_Returned ==
    (calc.op = "legacy_get_random_quote" /\ calc.done /\ quotes # <<>>)
        => /\ ~calc.out.raised
           /\ calc.out.quote \in Range(quotes)
           /\ last_used_quotes = calc.out.quote

C25_Consecutive ==
    (/\ calc.op = "legacy_get_random_quote" /\ calc.done
     /\ calc'.op = "legacy_get_random_quote" /\ calc'.done
     /\ quotes # <<>>)
        => calc'.out.quote # calc.out.quote

C25_NeverRepeats == []C25_Returned /\ [][C25_Consecutive]_vars

\* a is a prefix of b
C26_Prefix(a, b) == Len(a) <= Len(b) /\ \A i \in 1..Len(a) : a[i] = b[i]

\* C26: under any interleaving of handlers at their awaits the bootstrap
\* rule makes at most one user admin: two users who both send /start while
\* the admin list is empty cannot both end up in it; and no add to either
\* list is lost: both lists only grow, and what a handler added is there
\* and in the file.
C26_State ==
    /\ Len(admins) <= 1
    /\ usersFile = users /\ adminsFile = admins
    /\ \A s \in PairSlots :
          /\ "add_admin" \in Range(tasks[s].calls)
                 => tasks[s].user \in Range(admins)
          /\ "add_user" \in Range(tasks[s].calls)
                 => tasks[s].user \in Range(users)

C26_Step == C26_Prefix(users, users') /\ C26_Prefix(admins, admins')

C26_OneBootstrapAdmin == []C26_State /\ [][C26_Step]_vars

\* C26 witness: two /start handlers of different users are suspended at
\* their reply at the same time, one of them having become the admin, and
\* nobody is registered as a user yet.
C26_Witness ==
    /\ tasks[1].kind = "start" /\ tasks[2].kind = "start"
    /\ tasks[1].pc = "start_replied" /\ tasks[2].pc = "start_replied"
    /\ tasks[1].user # tasks[2].user
    /\ users = <<>>
    /\ Len(admins) = 1

\* C30: a dispatch run sends to exactly the users registered when it
\* started: the list it iterates is the user list at its start and stays
\* what it was whatever a /start does meanwhile, every entry up to the loop
\* position has been sent to once and in order, and the loop ends only after
\* the last entry; two overlapping runs each do so over their own list.
C30_InLoop(t) == t.kind \in {"scheduled", "notify_all"} /\ t.pc = "sending"

C30_State ==
    \A s \in PairSlots :
        C30_InLoop(tasks[s])
            => /\ tasks[s].idx \in 1..Len(tasks[s].snap)
               /\ tasks[s].out = SubSeq(tasks[s].snap, 1, tasks[s].idx)
               /\ \A i, j \in 1..Len(tasks[s].snap) :
                      tasks[s].snap[i] = tasks[s].snap[j] => i = j

C30_Step ==
    \A s \in PairSlots :
        /\ (tasks[s].pc = "idle" /\ C30_InLoop(tasks'[s]))
               => tasks'[s].snap = users
        /\ (tasks[s].pc = "idle" /\ tasks'[s].kind = "scheduled"
                /\ tasks'[s].pc = "done")
               => users = <<>>
        /\ (C30_InLoop(tasks[s]) /\ C30_InLoop(tasks'[s]))
               => tasks'[s].snap = tasks[s].snap
        /\ (C30_InLoop(tasks[s]) /\ tasks'[s] # tasks[s]
                /\ ~C30_InLoop(tasks'[s]))
               => tasks[s].idx = Len(tasks[s].snap)

C30_RunSendsToItsSnapshot == []C30_State /\ [][C30_Step]_vars

\* C30 witness: a run that started with one registered user is still
\* awaiting a send while a /start of another user has completed and added
\* that user, and the run's list is the shorter one still.
C30_Witness ==
    \E s, r \in PairSlots :
        /\ C30_InLoop(tasks[s])
        /\ tasks[r].kind = "start" /\ tasks[r].pc = "done"
        /\ tasks[r].user \in Range(users)
        /\ tasks[r].user \notin Range(tasks[s].snap)
        /\ tasks[s].snap # <<>>

\* C30 witness of the second half: a scheduled and a manual run overlap,
\* over different lists.
C30_WitnessOverlap ==
    /\ C30_InLoop(tasks[1]) /\ C30_InLoop(tasks[2])
    /\ tasks[1].kind # tasks[2].kind
    /\ tasks[1].snap # tasks[2].snap

\* C27: the prize fund reported by get_status_info never decreases as time
\* advances: of two reports, the second for a later moment, both at or after
\* the start, the second shows at least the fund of the first (across a
\* month boundary too, from the last day of a month to the 1st of the next).
C27_Later ==
    /\ calc.op = "get_status_info" /\ calc.done
    /\ calc'.op = "get_status_info" /\ calc'.done
    /\ Minutes(calc.arg) >= Minutes(START_DATE)
    /\ Minutes(calc'.arg) >= Minutes(calc.arg)

C27_FundNeverDecreases ==
    [][C27_Later => calc'.out.prize_fund >= calc.out.prize_fund]_vars

\* C28: starting from lists in which every admin is a user, whenever no
\* handler is in flight (each has completed or aborted), for any outcome of
\* the transport calls, every id of the admin list is in the user list.
C28_AdminsAreUsers ==
    (\A s \in Slots : tasks[s].pc \in {"idle", "done", "aborted"})
        => Range(admins) \subseteq Range(users)

\* what a handler leaves behind that the requester and the registry see
C29_Outcome(seg) ==
    [admins |-> seg.w.admins, replies |-> seg.t.replies, calls |-> seg.t.calls]

\* the /decline_admin command of user u, run on the lists as they are now
C29_Command(u) == C29_Outcome(decline_admin(World, NewTask("decline_admin", u)))

\* the 'decline_admin' button of user u, its press acknowledged, run on the
\* lists as they are now
C29_Button(u) ==
    C29_Outcome(handle_callback_query_resume(
        World,
        handle_callback_query(World, NewTask("callback", u), "decline_admin").t,
        TRUE))

\* C29: the /decline_admin command and the 'decline_admin' button are
\* equivalent: on the same user and admin lists and for the same requester
\* both leave the same admin list and send the requester the same reply
\* (last-admin rejection, 'You are not an admin.', or success), although
\* they make their checks in a different order. Stated for every command
\* run and every acknowledged button press of a behaviour: it does what the
\* other entry point would have done in its place.
C29_Step ==
    \A s \in Slots :
        /\ Begins(s, "decline_admin")
               => [admins |-> admins', replies |-> tasks'[s].replies,
                   calls |-> tasks'[s].calls] = C29_Button(tasks'[s].user)
        /\ (/\ tasks[s].pc = "cb_answered"
            /\ tasks[s].data = "decline_admin"
            /\ tasks'[s] # tasks[s]
            /\ ~(tasks'[s].pc = "aborted" /\ tasks'[s].calls = <<>>))
               => [admins |-> admins', replies |-> tasks'[s].replies,
                   calls |-> tasks'[s].calls] = C29_Command(tasks[s].user)

C29_DeclineEntryPointsAgree == [][C29_Step]_vars

\* C29 witness: the button was pressed by a user who is not an admin while
\* the list has a single admin - the case in which the order of the two
\* checks matters - and answered 'You are not an admin.'.
C29_Witness ==
    \E s \in Slots :
        /\ tasks[s].kind = "callback"
        /\ tasks[s].data = "decline_admin"
        /\ tasks[s].replies = <<NotAnAdminText>>
        /\ Len(admins) = 1
        /\ tasks[s].user \notin Range(admins)

====
